---- MODULE Spec2Model ----
(***************************************************************************)
(* A model of the elysia-csrf plugin: the token codec (hash, randomString, *)
(* tokenize, verifyToken), the secret/cookie manager (getOrCreateSecret,   *)
(* csrfToken) and the validation hook (onBeforeHandle).                    *)
(*                                                                         *)
(* The repository keeps two variants of the plugin source:                 *)
(*   variant 1  src/FLOW.md 251-569  (verifyToken takes saltLength, the    *)
(*              secret is obtained lazily and cached per request)          *)
(*   variant 2  src/FLOW.md 571-875  (verifyToken splits at the first '-', *)
(*              the secret is obtained in derive, the token is cached)     *)
(* Both are modelled; the variable `variant` says which one is installed.  *)
(***************************************************************************)
EXTENDS Integers, Sequences, FiniteSets, TLC

(***************************************************************************)
(* Bounds of the model.                                                    *)
(***************************************************************************)
\* width of a digest in characters (43 in the program, scaled down)
HashLen == 2
\* the most csrfToken() calls one handler makes
MaxCalls == 2
\* the longest salt, secret and free-text token the codec is applied to
MaxSaltLen == 2
MaxSecretLen == 2
MaxRawLen == 3

(***************************************************************************)
(* Characters and strings.  A string is a sequence of characters.  A       *)
(* character is a triple <<kind, input, n>>: kind 0 is a character of the  *)
(* URL-safe base64 alphabet with char code n; kind 1 is the n-th character *)
(* of the digest of `input` (SHA-256 is taken to be collision-free, so a   *)
(* digest character is identified by what was hashed and its position).    *)
(***************************************************************************)
Chr(code) == <<0, <<>>, code>>
Dash == Chr(45)
Under == Chr(95)
LetterA == Chr(97)

\* representatives of the URL-safe base64 alphabet [A-Za-z0-9_-]
Alphabet == {LetterA, Dash, Under}

Min(a, b) == IF a < b THEN a ELSE b

\* all strings over `chars` of length exactly n / at most n
StringsOfLen(chars, n) == [1..n -> chars]
StringsUpTo(chars, n) == UNION {StringsOfLen(chars, k) : k \in 0..n}

(***************************************************************************)
(* JavaScript values: undefined, a string, or one of the other values a    *)
(* parsed body can hold: null, a number (v its digits), an array of        *)
(* one-character strings (v its elements), an object.                      *)
(***************************************************************************)
Undef == [t |-> "undefined", v |-> <<>>]
Str(s) == [t |-> "string", v |-> s]
Empty == Str(<<>>)
Null == [t |-> "null", v |-> <<>>]
Num(digits) == [t |-> "number", v |-> digits]
Arr(elements) == [t |-> "array", v |-> elements]
Obj == [t |-> "object", v |-> <<>>]
Zero == Num(<<Chr(48)>>)

\* JavaScript truthiness: undefined, null, "" and 0 are falsy
Truthy(x) ==
  CASE x.t = "string" -> Len(x.v) > 0
    [] x.t = "number" -> x # Zero
    [] x.t \in {"array", "object"} -> TRUE
    [] OTHER -> FALSE

\* container?._csrf: undefined for an absent or null container and for a
\* string, the field for an object
CsrfField(shape, field) == IF shape = "object" THEN field ELSE Undef

\* the shapes a body and a query are sent with: each shape once as body and
\* once as query
ShapePairs ==
  {<<"object", "null">>, <<"string", "object">>, <<"null", "string">>,
   <<"absent", "absent">>}

\* a || b
Or(a, b) == IF Truthy(a) THEN a ELSE b

\* s.slice(0, n) for n >= 0
Slice0(s, n) == SubSeq(s, 1, Min(n, Len(s)))

\* s.indexOf(ch): the 0-based index of the first occurrence, or -1
IndexOf(s, ch) ==
  IF \E i \in 1..Len(s) : s[i] = ch
  THEN (CHOOSE i \in 1..Len(s) : s[i] = ch /\ \A j \in 1..(i - 1) : s[j] # ch) - 1
  ELSE -1

(***************************************************************************)
(* Token codec.                                                            *)
(***************************************************************************)
\* SHA-256 of str in URL-safe unpadded base64: HashLen digest characters
hash(str) == [i \in 1..HashLen |-> <<1, str, i>>]

\* the number of unpadded base64 characters that encode n bytes
Base64Len(n) == (4 * n + 2) \div 3

\* Math.floor(length * 0.75)
RandomByteCountFloor(length) == (3 * length) \div 4

\* Math.ceil(length * 0.75)
RandomByteCount(length) == (3 * length + 3) \div 4

\* randomString(length): every string the call can return
randomString(length) ==
  { Slice0(full, length) :
      full \in StringsOfLen(Alphabet, Base64Len(RandomByteCount(length))) }

\* a tokenize whose digest leaves the secret out: `${salt}-${hash(salt)}`
tokenizeNoSecret(secret, salt) == salt \o <<Dash>> \o hash(salt)

\* tokenize(secret, salt) = `${salt}-${hash(`${salt}-${secret}`)}`
tokenize(secret, salt) == salt \o <<Dash>> \o hash(salt \o <<Dash>> \o secret)

\* token.charCodeAt(i) ^ expected.charCodeAt(i): 0 iff the characters agree
CharXor(a, b) == IF a = b THEN 0 ELSE 1

\* the constant-time loop: result |= (token[i] ^ expected[i]) for every i
RECURSIVE CompareLoop(_, _, _, _)
CompareLoop(token, expected, i, result) ==
  IF i > Len(token) THEN result
  ELSE CompareLoop(token, expected, i + 1,
                   IF result = 0 /\ CharXor(token[i], expected[i]) = 0 THEN 0 ELSE 1)

\* the tail of both variants: length check, then the constant-time compare
CompareTokens(token, expected) ==
  IF Len(token) # Len(expected) THEN "false"
  ELSE IF CompareLoop(token, expected, 1, 0) = 0 THEN "true" ELSE "false"

\* a compare loop that stops at the first position where the tokens differ
RECURSIVE CompareStepsEarlyExit(_, _, _, _)
CompareStepsEarlyExit(token, expected, i, steps) ==
  IF i > Len(token) THEN steps
  ELSE IF CharXor(token[i], expected[i]) # 0 THEN steps + 1
  ELSE CompareStepsEarlyExit(token, expected, i + 1, steps + 1)

\* how often the body of `for (let i = 0; i < token.length; i++)` runs: the
\* loop has no break and no return, its bound is token.length alone
RECURSIVE CompareSteps(_, _, _, _)
CompareSteps(token, expected, i, steps) ==
  IF i > Len(token) THEN steps
  ELSE CompareSteps(token, expected, i + 1, steps + 1)

\* A call of verifyToken ends in one of: it returns true, it returns false,
\* it raises a TypeError (reading a property of undefined).

\* `${salt}` for a salt that is an array of k one-character strings: the
\* elements joined by commas
JoinedLen(k) == IF k = 0 THEN 0 ELSE 2 * k - 1

\* what the code after the guards does with a token that is not a string:
\* reading a property of undefined or null raises; a number or an object
\* has no length, no element and no indexOf; an array has them, but no
\* charCodeAt for the loop
checkNonString1(token, saltLength) ==
  IF token.t \in {"undefined", "null"} THEN "TypeError"
  ELSE IF token.t \in {"number", "object"} THEN "false"
  ELSE IF Len(token.v) < saltLength + 1 \/ token.v[saltLength + 1] # Dash THEN "false"
  ELSE IF Len(token.v) # JoinedLen(saltLength) + 1 + HashLen THEN "false"
  ELSE "TypeError"

checkNonString2(token) ==
  IF token.t # "array" THEN "TypeError"
  ELSE IF IndexOf(token.v, Dash) = -1 THEN "false"
  ELSE IF Len(token.v) # JoinedLen(IndexOf(token.v, Dash)) + 1 + HashLen THEN "false"
  ELSE "TypeError"

\* variant 1 after its two guards: the separator must sit at index saltLength
checkToken1(secret, token, saltLength) ==
  IF token.t # "string" THEN checkNonString1(token, saltLength)
  ELSE IF Len(token.v) < saltLength + 1 THEN "false"
  ELSE IF token.v[saltLength + 1] # Dash THEN "false"
  ELSE CompareTokens(token.v, tokenize(secret.v, Slice0(token.v, saltLength)))

verifyToken1(secret, token, saltLength) ==
  IF ~Truthy(secret) \/ secret.t # "string" THEN "false"
  ELSE IF ~Truthy(token) \/ token.t # "string" THEN "false"
  ELSE checkToken1(secret, token, saltLength)

\* variant 2 after its two guards: the salt is what precedes the first '-'
checkToken2(secret, token) ==
  IF token.t # "string" THEN checkNonString2(token)
  ELSE IF IndexOf(token.v, Dash) = -1 THEN "false"
  ELSE CompareTokens(token.v, tokenize(secret.v, Slice0(token.v, IndexOf(token.v, Dash))))

\* a verifyToken that tests its arguments for emptiness only, not for type
verifyToken2Untyped(secret, token) ==
  IF ~Truthy(secret) THEN "false"
  ELSE IF ~Truthy(token) THEN "false"
  ELSE checkToken2(secret, token)

\* a verifyToken without its two guards
verifyToken2Unguarded(secret, token) == checkToken2(secret, token)

verifyToken2(secret, token) ==
  IF ~Truthy(secret) \/ secret.t # "string" THEN "false"
  ELSE IF ~Truthy(token) \/ token.t # "string" THEN "false"
  ELSE checkToken2(secret, token)

\* const salt = ...: what the call takes for the salt of a string token
SaltOf(v, token, saltLength) ==
  Slice0(token.v, IF v = 1 THEN saltLength ELSE IndexOf(token.v, Dash))

\* the call gets past its guards, the separator check and the length check
LoopRuns(v, secret, token, saltLength) ==
  /\ Truthy(secret) /\ Truthy(token) /\ token.t = "string"
  /\ IF v = 1 THEN Len(token.v) >= saltLength + 1 /\ token.v[saltLength + 1] = Dash
              ELSE IndexOf(token.v, Dash) # -1
  /\ Len(token.v) = Len(tokenize(secret.v, SaltOf(v, token, saltLength)))

\* the number of loop iterations one call of verifyToken performs
verifySteps(v, secret, token, saltLength) ==
  IF LoopRuns(v, secret, token, saltLength)
  THEN CompareSteps(token.v, tokenize(secret.v, SaltOf(v, token, saltLength)), 1, 0)
  ELSE 0

\* the verifyToken of variant v
verifyToken(v, secret, token, saltLength) ==
  IF v = 1 THEN verifyToken1(secret, token, saltLength)
  ELSE verifyToken2(secret, token)

(***************************************************************************)
(* Configuration: csrf(options).                                           *)
(***************************************************************************)
\* the cookie attributes of CookieOptions that the plugin applies
AttrNames == {"path", "httpOnly", "sameSite", "secure", "maxAge", "domain"}

\* Attribute values are written as their literals: "true", "false", "0",
\* "3600", "" (the empty string), "/", ...; "absent" is a missing property.
NoAttrs == [a \in AttrNames |-> "absent"]

\* JavaScript truthiness of an attribute value
AttrTruthy(x) == x \notin {"absent", "false", "0", ""}

\* options.cookie: omitted, false, true, or an object naming the cookie key
CookieOmitted == [t |-> "undefined", b |-> FALSE, key |-> "_csrf", attrs |-> NoAttrs]
CookieFalse == [t |-> "boolean", b |-> FALSE, key |-> "_csrf", attrs |-> NoAttrs]
CookieTrue == [t |-> "boolean", b |-> TRUE, key |-> "_csrf", attrs |-> NoAttrs]
CookieWith(key, attrs) == [t |-> "object", b |-> FALSE, key |-> key, attrs |-> attrs]
CookieObject(key) == CookieWith(key, NoAttrs)

\* const defaults = { key: "_csrf", path: "/", httpOnly: true, sameSite: "lax" }
DefaultAttrs ==
  [NoAttrs EXCEPT !["path"] = "/", !["httpOnly"] = "true", !["sameSite"] = "lax"]

\* { ...defaults, ...options }
Spread(defaults, given) ==
  [a \in AttrNames |-> IF given[a] # "absent" THEN given[a] ELSE defaults[a]]

CookieKeys == {"_csrf", "XSRF-TOKEN"}

\* a getCookieOptions that hands out the defaults for false and undefined too
getCookieOptionsDefaulted(options) ==
  IF options.t = "object"
  THEN [enabled |-> TRUE, key |-> options.key,
        attrs |-> Spread(DefaultAttrs, options.attrs)]
  ELSE [enabled |-> TRUE, key |-> "_csrf", attrs |-> DefaultAttrs]

\* getCookieOptions: undefined (enabled FALSE) unless options is true or an object
getCookieOptions(options) ==
  IF ~(options.t = "boolean" /\ options.b) /\ options.t # "object"
  THEN [enabled |-> FALSE, key |-> "_csrf", attrs |-> NoAttrs]
  ELSE IF options.t = "object"
       THEN [enabled |-> TRUE, key |-> options.key,
             attrs |-> Spread(DefaultAttrs, options.attrs)]
       ELSE [enabled |-> TRUE, key |-> "_csrf", attrs |-> DefaultAttrs]

\* request methods the model sends ("patch" is not normalised by Request)
Methods == {"GET", "HEAD", "OPTIONS", "POST", "patch"}

\* String.prototype.toUpperCase on the method names of the model
toUpperCase(m) ==
  CASE m = "patch" -> "PATCH"
    [] m = "post" -> "POST"
    [] OTHER -> m

\* options.ignoreMethods: omitted, or a list of method names
IgnoreOmitted == [given |-> FALSE, list |-> {}]
IgnoreList(list) == [given |-> TRUE, list |-> list]

\* a default that leaves OPTIONS out
IgnoreGetHead == {"GET", "HEAD"}

DefaultIgnoreMethods == {"GET", "HEAD", "OPTIONS"}

\* a getIgnoredMethods that keeps the entries as they were written
getIgnoredMethodsAsWritten(methods) == methods

\* getIgnoredMethods: the lookup object, as the set of its keys
getIgnoredMethods(methods) == {toUpperCase(m) : m \in methods}

\* the configurations the model installs
SaltLengths == {1}
SecretLengths == {1}
CookieOptions == {CookieOmitted, CookieFalse, CookieTrue, CookieObject("XSRF-TOKEN")}

\* cookie objects that set every attribute: to usual values, and to the
\* values that are falsy in JavaScript
UsualAttrs ==
  [a \in AttrNames |->
     CASE a = "path" -> "/app"
       [] a = "httpOnly" -> "true"
       [] a = "sameSite" -> "strict"
       [] a = "secure" -> "true"
       [] a = "maxAge" -> "3600"
       [] a = "domain" -> "example.com"]
FalsyAttrs ==
  [a \in AttrNames |->
     CASE a = "path" -> ""
       [] a = "httpOnly" -> "false"
       [] a = "sameSite" -> "none"
       [] a = "secure" -> "false"
       [] a = "maxAge" -> "0"
       [] a = "domain" -> "example.com"]

\* options.value is "default" when omitted, and "custom" for the header-only
\* extractor ({ headers }) => headers.get("x-csrf-token") || headers.get("x-xsrf-token")

(***************************************************************************)
(* Secrets.                                                                *)
(***************************************************************************)
\* generateSecret(length): length random bytes in unpadded URL-safe base64.
\* The model draws them from the strings of that length with at most one '-'.
generateSecret(length) ==
  { s \in StringsOfLen({LetterA, Dash}, Base64Len(length)) :
      Cardinality({i \in 1..Len(s) : s[i] = Dash}) <= 1 }

\* the token mentions secret s: one of its digest characters hashed "...-s"
Mentions(tok, s) ==
  \E i \in 1..Len(tok) :
    /\ tok[i][1] = 1
    /\ Len(tok[i][2]) > Len(s)
    /\ SubSeq(tok[i][2], Len(tok[i][2]) - Len(s), Len(tok[i][2])) = <<Dash>> \o s

(***************************************************************************)
(* Token extraction.                                                       *)
(***************************************************************************)
HeaderNames == {"csrf-token", "xsrf-token", "x-csrf-token", "x-xsrf-token"}

\* headers[name] on the Headers object of the request: header values are
\* not properties of a Headers instance, so the lookup yields undefined
HeadersProp(headers, name) == Undef

\* Headers.prototype.get(name): the value of the header, whatever the letter
\* case it was sent in (the model keeps header names in lower case)
HeadersGet(headers, name) == headers[name]

\* the extractor of the configurations with options.value
customValue(context) ==
  Or(HeadersGet(context.headers, "x-csrf-token"),
     HeadersGet(context.headers, "x-xsrf-token"))

\* defaultValue(context)
defaultValue(context) ==
  Or(context.body,
  Or(context.query,
  Or(HeadersProp(context.headers, "csrf-token"),
  Or(HeadersProp(context.headers, "xsrf-token"),
  Or(HeadersProp(context.headers, "x-csrf-token"),
     HeadersProp(context.headers, "x-xsrf-token"))))))

NoHeaders == [h \in HeaderNames |-> Undef]

(***************************************************************************)
(* State.                                                                  *)
(***************************************************************************)
VARIABLES
  variant,    \* which variant of the plugin source is installed
  options,    \* the options csrf() was called with
  rq,         \* the request being handled
  held,       \* ghost: one (secret, token) pair a client keeps, and how it
              \* came by it: "issued", "accepted", then "replayed"
  pure,       \* the codec applied to drawn inputs (PureSpec only)
  peer        \* a second request in flight, suspended while rq runs
              \* (ConcSpec only)

vars == <<variant, options, rq, held, pure, peer>>

cookieConfig == getCookieOptions(options.cookie)
cookieKey == cookieConfig.key
saltLength == options.saltLength
secretLength == options.secretLength
ignoreMethods ==
  IF options.ignoreMethods.given THEN options.ignoreMethods.list
  ELSE DefaultIgnoreMethods
ignoreMethod == getIgnoredMethods(ignoreMethods)
\* an extractor that falls back to the default locations
getValueWithFallback(context) ==
  IF options.value = "custom"
  THEN Or(customValue(context), defaultValue(context))
  ELSE defaultValue(context)

getValue(context) ==
  IF options.value = "custom" THEN customValue(context) ELSE defaultValue(context)

\* setCookieAttributes(cookieValue): path, sameSite, maxAge and domain are
\* assigned when truthy, httpOnly and secure when not undefined
setCookieAttributes(cookieValue) ==
  [a \in AttrNames |->
     IF a \in {"httpOnly", "secure"}
     THEN IF cookieConfig.attrs[a] # "absent" THEN cookieConfig.attrs[a]
          ELSE cookieValue[a]
     ELSE IF AttrTruthy(cookieConfig.attrs[a]) THEN cookieConfig.attrs[a]
          ELSE cookieValue[a]]

NoCookies == [k \in CookieKeys |-> Undef]

\* pc: where the request is; presented: the secret cookie it arrived with;
\* writes, attrs: the plugin's writes to cookie[cookieKey]; cached, tokenCache:
\* the closure variables of derive; calls, last: the returns of csrfToken();
\* invoked, drawn (ghost): the invocations of csrfToken() and the salt
\* randomString holds for the latest one; validatedWith (ghost): the secret
\* the validation step read for a checked request; shapes (ghost): what the
\* body and the query of the request are
IdleRequest ==
  [ pc |-> "idle", method |-> "GET", cookie |-> NoCookies, presented |-> Undef,
    writes |-> 0, attrs |-> NoAttrs, invoked |-> 0, drawn |-> <<>>, body |-> Undef, query |-> Undef, headers |-> NoHeaders,
    cached |-> Undef, tokenCache |-> Undef, calls |-> 0, last |-> Undef,
    status |-> 0, text |-> "", validatedWith |-> Undef,
    shapes |-> <<"object", "object">> ]

\* no second request
PeerOff == [IdleRequest EXCEPT !.pc = "off"]

NothingHeld == [s |-> Undef, t |-> Undef, how |-> "none"]

PureOff ==
  [ pc |-> "off", mode |-> "none", secret |-> Undef, other |-> Undef, salt |-> <<>>,
    token |-> Undef, against |-> Undef, result |-> "", steps |-> 0 ]

Init ==
  /\ variant \in {1, 2}
  /\ options \in [cookie : CookieOptions, saltLength : SaltLengths,
                  secretLength : SecretLengths,
                  ignoreMethods : {IgnoreOmitted}, value : {"default"}]
  /\ rq = IdleRequest
  /\ held = NothingHeld
  /\ pure = PureOff
  /\ peer = PeerOff

(***************************************************************************)
(* The requests a client can send.                                         *)
(***************************************************************************)
\* every secret a cookie can carry
SecretPool == UNION {generateSecret(n) : n \in SecretLengths}

\* cookie values: absent, empty, or a secret
CookieValues == {Undef, Empty} \cup {Str(s) : s \in SecretPool}

\* token candidates: absent, empty, text without '-', text around a '-',
\* and every token tokenize can build for a secret of the pool
Candidates ==
  {Undef, Empty, Str(<<LetterA, LetterA>>), Str(<<LetterA, Dash, LetterA>>)}
  \cup {Str(tokenize(s, salt)) : s \in SecretPool, salt \in randomString(saltLength)}

\* where a request carries its token candidate
Locations == {"body", "query", "x-csrf-token"}

\* the order in which defaultValue reads the locations
Order == <<"body", "query", "csrf-token", "xsrf-token", "x-csrf-token", "x-xsrf-token">>
Pos(l) == CHOOSE i \in 1..Len(Order) : Order[i] = l

\* what else a request carries besides its candidate: nothing, an empty
\* string or free text in every location read before the candidate's, or
\* free text in every location read after it
Garbage == Str(<<LetterA, LetterA>>)
Layouts ==
  {[side |-> "none", d |-> Undef], [side |-> "before", d |-> Empty],
   [side |-> "before", d |-> Garbage], [side |-> "after", d |-> Garbage]}

\* the value a request with candidate tok at loc carries at location l
At(l, tok, loc, lay) ==
  IF l = loc THEN tok
  ELSE IF lay.side = "before" /\ Pos(l) < Pos(loc) THEN lay.d
  ELSE IF lay.side = "after" /\ Pos(l) > Pos(loc) THEN lay.d
  ELSE Undef

\* a secret no token of the request mentions and no client holds: what
\* crypto.randomBytes yields cannot have been guessed beforehand
Fresh(s, req) ==
  /\ held.s # Str(s)
  /\ ~Mentions(req.body.v, s)
  /\ ~Mentions(req.query.v, s)
  /\ \A h \in HeaderNames : ~Mentions(req.headers[h].v, s)

\* cookieObj.value = secret; setCookieAttributes(cookieObj)
WriteCookie(req, secret) ==
  [req EXCEPT !.cookie[cookieKey] = Str(secret), !.writes = @ + 1,
              !.attrs = setCookieAttributes(@)]

\* a read that falls back to a built-in secret when the cookie has none
ReadSecretOrDefault(req) ==
  IF Truthy(req.cookie[cookieKey]) THEN req.cookie[cookieKey]
  ELSE Str(<<LetterA, LetterA>>)

\* cookieObj.value ? String(cookieObj.value) : undefined
ReadSecret(req) ==
  IF Truthy(req.cookie[cookieKey]) THEN req.cookie[cookieKey] ELSE Undef

(***************************************************************************)
(* derive: runs when the request arrives.                                  *)
(***************************************************************************)
\* a cachedSecret declared once for the plugin instead of once per request:
\* a new request finds what the other request in flight left in it
derive1Shared(req) == [req EXCEPT !.cached = peer.cached]

\* variant 1: only declares cachedSecret
derive1(req) == [req EXCEPT !.cached = Undef]

\* variant 2: reads the secret and creates one when there is none
derive2(req, fresh) ==
  IF ~cookieConfig.enabled THEN [req EXCEPT !.cached = Undef]
  ELSE IF Truthy(ReadSecret(req)) THEN [req EXCEPT !.cached = ReadSecret(req)]
  ELSE [WriteCookie(req, fresh) EXCEPT !.cached = Str(fresh)]

\* The server keeps nothing between requests, so once a client holds a pair
\* the model follows the requests that present that pair's cookie, with or
\* without its token; all other traffic is explored while nothing is held.
ArrivingTokens == IF held.how = "none" THEN Candidates ELSE {held.t, Undef}
ArrivingCookies == IF held.how = "none" THEN CookieValues ELSE {held.s}
ArrivingLayouts ==
  IF held.how = "none" THEN Layouts ELSE {[side |-> "none", d |-> Undef]}

Arrive ==
  /\ rq.pc = "idle"
  /\ \E m \in Methods, c \in ArrivingCookies, tok \in ArrivingTokens, loc \in Locations,
        lay \in ArrivingLayouts, fresh \in generateSecret(secretLength) :
       LET req == [IdleRequest EXCEPT
                     !.pc = "derived", !.method = m,
                     !.cookie[cookieKey] = c, !.presented = c,
                     !.body = At("body", tok, loc, lay),
                     !.query = At("query", tok, loc, lay),
                     !.headers = [h \in HeaderNames |-> At(h, tok, loc, lay)]]
       IN /\ Fresh(fresh, req)
          /\ rq' = IF variant = 1 THEN derive1(req) ELSE derive2(req, fresh)
  /\ UNCHANGED <<variant, options, pure, held, peer>>

\* the response has been sent: the request context is dropped
Finish ==
  /\ rq.pc = "done"
  /\ rq' = IdleRequest
  /\ UNCHANGED <<variant, options, pure, held, peer>>

(***************************************************************************)
(* onBeforeHandle: the validation step.                                    *)
(***************************************************************************)
Allow(req) == [req EXCEPT !.pc = "handler"]

\* a 403 response that is built but not returned from the hook
RejectNotReturned(req, text) == Allow(req)

Reject(req, text) == [req EXCEPT !.pc = "done", !.status = 403, !.text = text]

Context(req) == [body |-> req.body, query |-> req.query, headers |-> req.headers]

\* an error raised inside the hook or the handler leaves through the framework
Throw(req, text) == [req EXCEPT !.pc = "done", !.status = 500, !.text = text]

\* a single-use check: a pair that was accepted before is refused
DecideOnce(req, verdict) ==
  IF /\ held.how \in {"accepted", "replayed"}
     /\ ReadSecret(req) = held.s /\ getValue(Context(req)) = held.t
  THEN Reject(req, "Invalid CSRF token")
  ELSE IF verdict = "TypeError" THEN Throw(req, "TypeError")
  ELSE IF verdict = "false" THEN Reject(req, "Invalid CSRF token")
  ELSE Allow(req)

\* a hook that throws on a failed verification instead of returning a 403
DecideThrows(req, verdict) ==
  IF verdict = "true" THEN Allow(req) ELSE Throw(req, "Invalid CSRF token")

\* if (!verifyToken(...)) return new Response("Invalid CSRF token", 403)
Decide(req, verdict) ==
  IF verdict = "TypeError" THEN Throw(req, "TypeError")
  ELSE IF verdict = "false" THEN Reject(req, "Invalid CSRF token")
  ELSE Allow(req)

onBeforeHandle1(req) ==
  IF toUpperCase(req.method) \in ignoreMethod THEN Allow(req)
  ELSE IF ~cookieConfig.enabled
       THEN Reject(req, "Invalid CSRF token: Cookie config not enabled")
  ELSE IF ~Truthy(ReadSecret(req)) THEN Reject(req, "Invalid CSRF token")
  ELSE IF ~Truthy(getValue(Context(req))) THEN Reject(req, "Invalid CSRF token")
  ELSE Decide(req, verifyToken1(ReadSecret(req), getValue(Context(req)), saltLength))

\* a hook that validates every request, whatever its method
onBeforeHandle2Unclassified(req) ==
  IF ~Truthy(IF cookieConfig.enabled THEN ReadSecret(req) ELSE Undef)
  THEN Reject(req, "Invalid CSRF token")
  ELSE IF ~Truthy(getValue(Context(req))) THEN Reject(req, "Invalid CSRF token")
  ELSE Decide(req, verifyToken2(ReadSecret(req), getValue(Context(req))))

onBeforeHandle2(req) ==
  IF toUpperCase(req.method) \in ignoreMethod THEN Allow(req)
  ELSE IF ~Truthy(IF cookieConfig.enabled THEN ReadSecret(req) ELSE Undef)
       THEN Reject(req, "Invalid CSRF token")
  ELSE IF ~Truthy(getValue(Context(req))) THEN Reject(req, "Invalid CSRF token")
  ELSE Decide(req, verifyToken2(ReadSecret(req), getValue(Context(req))))

onBeforeHandle(req) ==
  IF variant = 1 THEN onBeforeHandle1(req) ELSE onBeforeHandle2(req)

\* the request passed validation as a checked (non-ignored) request
Accepted(req) ==
  /\ onBeforeHandle(req).pc = "handler"
  /\ toUpperCase(req.method) \notin ignoreMethod

\* const secret = cookieObj.value ? String(cookieObj.value) : undefined, read
\* once the method is known not to be ignored
SecretRead(req) ==
  IF toUpperCase(req.method) \notin ignoreMethod /\ cookieConfig.enabled
  THEN ReadSecret(req) ELSE Undef

BeforeHandle ==
  /\ rq.pc = "derived"
  /\ rq' = [onBeforeHandle(rq) EXCEPT !.validatedWith = SecretRead(rq)]
  /\ \/ UNCHANGED held
     \/ /\ held.how = "none"
        /\ Accepted(rq)
        /\ held' = [s |-> ReadSecret(rq), t |-> getValue(Context(rq)), how |-> "accepted"]
     \/ /\ held.how = "accepted"
        /\ Accepted(rq)
        /\ ReadSecret(rq) = held.s /\ getValue(Context(rq)) = held.t
        /\ held' = [held EXCEPT !.how = "replayed"]
  /\ UNCHANGED <<variant, options, pure, peer>>

(***************************************************************************)
(* csrfToken(): called by the handler.                                     *)
(***************************************************************************)
Return(req, token) == [req EXCEPT !.calls = @ + 1, !.last = Str(token)]

\* a getOrCreateSecret that never looks at the cookie of the request
getOrCreateSecretAlways(req, fresh) ==
  IF Truthy(req.cached) THEN req
  ELSE IF ~cookieConfig.enabled THEN Throw(req, "CSRF: Cookie storage must be enabled")
  ELSE [WriteCookie(req, fresh) EXCEPT !.cached = Str(fresh)]

\* a getOrCreateSecret without cachedSecret that looks at the cookie the
\* request arrived with, not at the cookie it has now
getOrCreateSecretUncached(req, fresh) ==
  IF ~cookieConfig.enabled THEN Throw(req, "CSRF: Cookie storage must be enabled")
  ELSE IF Truthy(req.presented) THEN [req EXCEPT !.cached = req.presented]
  ELSE [WriteCookie(req, fresh) EXCEPT !.cached = Str(fresh)]

\* variant 1: getOrCreateSecret
getOrCreateSecret(req, fresh) ==
  IF Truthy(req.cached) THEN req
  ELSE IF ~cookieConfig.enabled THEN Throw(req, "CSRF: Cookie storage must be enabled")
  ELSE IF Truthy(ReadSecret(req)) THEN [req EXCEPT !.cached = ReadSecret(req)]
  ELSE [WriteCookie(req, fresh) EXCEPT !.cached = Str(fresh)]

\* variant 1: a new salt and a new token on every call
csrfToken1(req, fresh, salt) ==
  LET got == getOrCreateSecret(req, fresh)
  IN IF got.status = 500 THEN got
     ELSE Return(got, tokenize(got.cached.v, salt))

\* a csrfToken that creates and stores a new secret on every call
csrfToken2Rotating(req, fresh, salt) ==
  IF ~cookieConfig.enabled THEN Throw(req, "CSRF: Cookie storage must be enabled")
  ELSE Return([WriteCookie(req, fresh) EXCEPT !.cached = Str(fresh)],
              tokenize(fresh, salt))

\* variant 2: the secret of derive, and the token of the first call
csrfToken2(req, fresh, salt) ==
  IF ~cookieConfig.enabled THEN Throw(req, "CSRF: Cookie storage must be enabled")
  ELSE LET got == IF Truthy(req.cached) THEN req
                  ELSE [WriteCookie(req, fresh) EXCEPT !.cached = Str(fresh)]
       IN IF Truthy(got.tokenCache) THEN Return(got, got.tokenCache.v)
          ELSE [Return(got, tokenize(got.cached.v, salt)) EXCEPT
                  !.tokenCache = Str(tokenize(got.cached.v, salt))]

csrfToken(req, fresh, salt) ==
  IF variant = 1 THEN csrfToken1(req, fresh, salt) ELSE csrfToken2(req, fresh, salt)

CsrfToken ==
  /\ rq.pc = "handler"
  /\ rq.calls < MaxCalls
  /\ \E fresh \in generateSecret(secretLength), salt \in randomString(saltLength) :
       /\ Fresh(fresh, rq)
       /\ rq' = csrfToken([rq EXCEPT !.invoked = @ + 1, !.drawn = salt], fresh, salt)
  /\ \/ UNCHANGED held
     \/ /\ held.how = "none"
        /\ rq'.status # 500
        /\ held' = [s |-> rq'.cookie[cookieKey], t |-> rq'.last, how |-> "issued"]
  /\ UNCHANGED <<variant, options, pure, peer>>

\* the handler returns
Respond ==
  /\ rq.pc = "handler"
  /\ rq' = [rq EXCEPT !.pc = "done", !.status = 200]
  /\ UNCHANGED <<variant, options, pure, held, peer>>

Next == Arrive \/ BeforeHandle \/ CsrfToken \/ Respond \/ Finish

Spec == Init /\ [][Next]_vars

(***************************************************************************)
(* ConfigSpec: the same plugin installed with non-default options.         *)
(***************************************************************************)
Configured(cookie, ignore, value) ==
  {[cookie |-> cookie, saltLength |-> n, secretLength |-> k,
    ignoreMethods |-> ignore, value |-> value] :
     n \in SaltLengths, k \in SecretLengths}

\* falsy attributes with an ignoreMethods list; usual attributes with the
\* empty list and the custom extractor; the custom extractor alone
ConfigOptions ==
  UNION {Configured(CookieWith("_csrf", FalsyAttrs), IgnoreList({"post", "PATCH"}), "default"),
         Configured(CookieWith("XSRF-TOKEN", UsualAttrs), IgnoreList({}), "custom"),
         Configured(CookieTrue, IgnoreOmitted, "custom")}

InitConfig ==
  /\ variant \in {1, 2}
  /\ options \in ConfigOptions
  /\ rq = IdleRequest
  /\ held = NothingHeld
  /\ pure = PureOff
  /\ peer = PeerOff

ConfigSpec == InitConfig /\ [][Next]_vars

(***************************************************************************)
(* ConcSpec: two requests of different clients in flight at once. The      *)
(* server runs one of them at a time and may switch between them after     *)
(* every step; each request has the cookie store and the closure variables *)
(* its own call of derive was given.                                       *)
(***************************************************************************)
\* no client is followed across requests
Untracked == [NothingHeld EXCEPT !.how = "untracked"]

InitConc ==
  /\ variant \in {1, 2}
  /\ options \in [cookie : {CookieTrue}, saltLength : SaltLengths,
                  secretLength : SecretLengths,
                  ignoreMethods : {IgnoreOmitted}, value : {"default"}]
  /\ rq = IdleRequest
  /\ held = Untracked
  /\ pure = PureOff
  /\ peer = IdleRequest

\* a GET or a POST without token arrives, from a client other than the one
\* of the request in flight: without a secret cookie, or with another one
ArriveConcurrent ==
  /\ rq.pc = "idle"
  /\ \E m \in {"GET", "POST"}, c \in {Undef} \cup {Str(s) : s \in SecretPool},
        fresh \in generateSecret(secretLength) :
       LET req == [IdleRequest EXCEPT
                     !.pc = "derived", !.method = m,
                     !.cookie[cookieKey] = c, !.presented = c]
       IN /\ Truthy(c) => c # peer.cookie[cookieKey]
          /\ rq' = IF variant = 1 THEN derive1(req) ELSE derive2(req, fresh)
  /\ UNCHANGED <<variant, options, pure, held, peer>>

\* the server turns to the other request
Switch ==
  /\ peer.pc # "off"
  /\ rq' = peer
  /\ peer' = rq
  /\ UNCHANGED <<variant, options, pure, held>>

NextConc ==
  ArriveConcurrent \/ Switch \/ BeforeHandle \/ CsrfToken \/ Respond \/ Finish

ConcSpec == InitConc /\ [][NextConc]_vars

(***************************************************************************)
(* PureSpec: tokenize and verifyToken applied to drawn inputs, and the     *)
(* verified pair then submitted as a request.                              *)
(***************************************************************************)
PureSecretStrings == StringsUpTo({LetterA, Dash}, MaxSecretLen)
PureSecrets == {Undef} \cup {Str(s) : s \in PureSecretStrings}
PureSalts == StringsUpTo(Alphabet, MaxSaltLen)

\* a minted token with its last character dropped, with a character added
\* at either end, with its separator overwritten, and with its last
\* character overwritten
Damaged(t, salt) ==
  { Slice0(t, Len(t) - 1), t \o <<LetterA>>, <<LetterA>> \o t,
    [t EXCEPT ![Len(salt) + 1] = LetterA], [t EXCEPT ![Len(t)] = LetterA] }

\* values of a parsed body field that are not strings
NonStrings ==
  {Null, Zero, Num(<<Chr(55)>>), Obj, Arr(<<LetterA>>),
   Arr(<<LetterA, Dash>> \o [i \in 1..HashLen |-> LetterA])}

\* tokens the codec never minted: absent, empty, free text, damaged tokens,
\* values that are not strings
RawTokens ==
  {Undef} \cup {Str(s) : s \in StringsUpTo(Alphabet, MaxRawLen)} \cup NonStrings
  \cup {Str(d) : d \in UNION {Damaged(tokenize(<<LetterA>>, salt), salt) :
                                salt \in StringsUpTo(Alphabet, 1)}}

PureInputs ==
  {[PureOff EXCEPT !.pc = "start", !.mode = "mint", !.secret = Str(s),
                   !.other = o, !.salt = salt] :
     s \in PureSecretStrings, o \in PureSecrets, salt \in PureSalts}
  \cup {[PureOff EXCEPT !.pc = "start", !.mode = "raw", !.secret = s, !.token = r] :
     s \in PureSecrets, r \in RawTokens}
  \cup {[PureOff EXCEPT !.pc = "start", !.mode = "draw", !.secret = Str(s)] :
     s \in PureSecretStrings}

InitPure ==
  /\ variant \in {1, 2}
  /\ options \in [cookie : {CookieTrue}, saltLength : 0..MaxSaltLen,
                  secretLength : SecretLengths,
                  ignoreMethods : {IgnoreOmitted}, value : {"default"}]
  /\ rq = IdleRequest
  /\ held = NothingHeld
  /\ pure \in PureInputs
  /\ peer = PeerOff

\* salt = randomString(saltLength), as csrfToken() draws it
RandomString ==
  /\ pure.pc = "start" /\ pure.mode = "draw"
  /\ \E salt \in randomString(saltLength) :
       pure' = [pure EXCEPT !.pc = "drawn", !.salt = salt]
  /\ UNCHANGED <<variant, options, rq, held, peer>>

\* token = tokenize(secret, salt)
Tokenize ==
  /\ \/ pure.pc = "start" /\ pure.mode = "mint"
     \/ pure.pc = "drawn"
  /\ pure' = [pure EXCEPT !.pc = "minted", !.token = Str(tokenize(pure.secret.v, pure.salt))]
  /\ UNCHANGED <<variant, options, rq, held, peer>>

Verified(against, mode) ==
  [pure EXCEPT !.pc = "verified", !.mode = mode, !.against = against,
               !.result = verifyToken(variant, against, pure.token, saltLength),
               !.steps = verifySteps(variant, against, pure.token, saltLength)]

\* verifyToken(secret, token) for the minted token and its own secret
VerifySame ==
  /\ pure.pc = "minted"
  /\ pure' = Verified(pure.secret, "same")
  /\ UNCHANGED <<variant, options, rq, held, peer>>

\* verifyToken(other, token) for the minted token and another secret
VerifyOther ==
  /\ pure.pc = "minted"
  /\ pure' = Verified(pure.other, "other")
  /\ UNCHANGED <<variant, options, rq, held, peer>>

\* verifyToken(secret, token) for a token that was never minted
VerifyRaw ==
  /\ pure.pc = "start" /\ pure.mode = "raw"
  /\ pure' = Verified(pure.secret, "raw")
  /\ UNCHANGED <<variant, options, rq, held, peer>>

\* a request with a checked method presents the verified pair: the secret as
\* its cookie, the token as field _csrf of its body; a value that is not a
\* string is sent with every shape of body and query
Submit ==
  /\ pure.pc = "verified"
  /\ rq.pc = "idle"
  /\ \E m \in Methods \ DefaultIgnoreMethods, fresh \in generateSecret(secretLength),
        sh \in IF pure.mode = "raw" /\ pure.token.t # "string"
                THEN ShapePairs ELSE {<<"object", "absent">>} :
       LET req == [IdleRequest EXCEPT
                     !.pc = "derived", !.method = m,
                     !.cookie[cookieKey] = pure.against, !.presented = pure.against,
                     !.shapes = sh,
                     !.body = CsrfField(sh[1], pure.token),
                     !.query = CsrfField(sh[2], pure.token)]
       IN /\ Fresh(fresh, req)
          /\ rq' = IF variant = 1 THEN derive1(req) ELSE derive2(req, fresh)
  /\ UNCHANGED <<variant, options, held, pure, peer>>

NextPure == RandomString \/ Tokenize \/ VerifySame \/ VerifyOther \/ VerifyRaw \/ Submit \/ BeforeHandle

PureSpec == InitPure /\ [][NextPure]_vars
(***************************************************************************)
(* Properties.                                                             *)
(***************************************************************************)
\* the request has been through the validation step
Validated == rq.pc \in {"handler", "done"}

\* the request's method is not in the ignored set
Checked == toUpperCase(rq.method) \notin ignoreMethod

\* the validation step rejected the request: 403, and the handler never ran
Rejected == rq.pc = "done" /\ rq.status = 403 /\ rq.calls = 0

\* the validation step let the request through to its handler
Passed == rq.status \in {0, 200}

\* C1: a token obtained from csrfToken() while the secret cookie was s is
\* accepted on every later checked request that presents cookie s and the
\* token as body field _csrf, whatever salt randomString drew.
C1_IssueThenSubmit ==
  (/\ held.how = "issued"
   /\ Validated /\ Checked
   /\ rq.presented = held.s
   /\ rq.body = held.t)
  => Passed

\* C2: for every non-empty secret s and every salt over the URL-safe
\* alphabet, verifyToken(s, tokenize(s, salt)) returns true.
\* (Variant 1's verifyToken takes the salt length as a third argument; the
\* call is made with the length of the salt the token was minted with.)
C2_VerifyOwnToken ==
  (/\ pure.pc = "verified" /\ pure.mode = "same"
   /\ Truthy(pure.secret)
   /\ Len(pure.salt) = saltLength)
  => pure.result = "true"

\* the request that presents the verified pair has been through validation
Submitted == rq.pc \in {"handler", "done"} /\ rq.body = pure.token

\* C3: for secrets s1 # s2 and any salt, verifyToken(s2, tokenize(s1, salt))
\* returns false, and the request whose cookie holds s2 and whose _csrf field
\* holds the token minted under s1 is rejected with 403.
C3_OtherSecretRejected ==
  (pure.pc = "verified" /\ pure.mode = "other" /\ pure.other # pure.secret)
  => /\ pure.result = "false"
     /\ Submitted => Rejected

\* a token minted under one secret has been verified against a different
\* non-empty secret, submitted under that secret, and refused
C3_Witness ==
  /\ pure.pc = "verified" /\ pure.mode = "other"
  /\ Truthy(pure.other) /\ pure.other # pure.secret
  /\ Len(pure.salt) = saltLength /\ IndexOf(pure.salt, Dash) = -1
  /\ pure.result = "false"
  /\ Submitted /\ Rejected /\ rq.presented = pure.other

\* the length verifyToken expects of a token, given where it finds the salt
ExpectedLen(token) ==
  (IF variant = 1 THEN saltLength ELSE IndexOf(token.v, Dash)) + 1 + HashLen

\* the inputs C6 lists: empty secret, empty token, no '-', wrong length
Malformed(secret, token) ==
  \/ ~Truthy(secret)
  \/ ~Truthy(token)
  \/ IndexOf(token.v, Dash) = -1
  \/ Len(token.v) # ExpectedLen(token)

\* C6: verifyToken returns false, and never raises, when the secret is empty
\* or absent, the token is empty or absent, the token has no '-', or the
\* token's length differs from the expected token's; a request with a
\* well-formed cookie and a token that was never minted is rejected with 403.
C6_MalformedIsFalse ==
  pure.pc = "verified"
  => /\ pure.result # "TypeError"
     /\ (Malformed(pure.against, pure.token) \/ pure.mode = "raw")
          => pure.result = "false"
     /\ (pure.mode = "raw" /\ Submitted) => Rejected

\* free text with a '-' in it ("a-a", like "invalid-token") was verified
\* against a non-empty secret, submitted with that secret as cookie, refused
C6_Witness ==
  /\ pure.pc = "verified" /\ pure.mode = "raw"
  /\ Truthy(pure.against)
  /\ pure.token = Str(<<LetterA, Dash, LetterA>>)
  /\ pure.result = "false"
  /\ Submitted /\ Rejected /\ rq.presented = pure.against
\* C4: a request with a checked method whose secret cookie is absent or
\* empty is rejected with 403, whatever token it carries and wherever.
C4_NoSecretRejected ==
  (Validated /\ Checked /\ ~Truthy(rq.presented)) => Rejected

\* a POST-like request with an empty secret cookie and a well-formed token
\* in its body was refused
C4_Witness ==
  /\ Rejected /\ Checked
  /\ rq.presented = Empty
  /\ \E sec \in SecretPool, salt \in randomString(saltLength) :
       rq.body = Str(tokenize(sec, salt))

\* C5: a request with a checked method and a non-empty secret cookie whose
\* token is absent from every location the extractor reads, or is the empty
\* string, is rejected with 403 and its handler does not run.
C5_NoTokenRejected ==
  (/\ Validated /\ Checked
   /\ Truthy(rq.presented)
   /\ ~Truthy(getValue(Context(rq))))
  => Rejected

\* cookie storage is on, the cookie holds a secret, the body token is the
\* empty string: refused
C5_Witness ==
  /\ Rejected /\ Checked
  /\ cookieConfig.enabled
  /\ Truthy(rq.presented)
  /\ rq.body = Empty /\ rq.query = Undef

\* C7: with the default configuration a GET, HEAD or OPTIONS request passes
\* the validation step whatever cookie and token it carries: it is never
\* answered 403, and it only ends by its handler.
C7_IgnoredMethodsPass ==
  (Validated /\ rq.method \in {"GET", "HEAD", "OPTIONS"})
  => /\ rq.status # 403
     /\ rq.pc = "done"
          => rq.status = 200 \/ rq.text = "CSRF: Cookie storage must be enabled"

\* an OPTIONS request with no cookie and free text as token is in its handler
C7_Witness ==
  /\ rq.pc = "handler" /\ rq.method = "OPTIONS"
  /\ ~Truthy(rq.presented)
  /\ rq.body = Str(<<LetterA, LetterA>>)

\* C8: a (secret, token) pair that was accepted once is accepted on every
\* later checked request that presents it, and accepting writes no cookie.
C8_TokensReusable ==
  (/\ held.how \in {"accepted", "replayed"}
   /\ Validated /\ Checked
   /\ rq.presented = held.s
   /\ getValue(Context(rq)) = held.t)
  => /\ Passed
     /\ rq.calls = 0 => (rq.writes = 0 /\ rq.cookie[cookieKey] = held.s)

\* the pair has been accepted a second time
C8_Witness ==
  /\ held.how = "replayed"
  /\ rq.pc = "handler" /\ Checked
  /\ rq.presented = held.s /\ getValue(Context(rq)) = held.t

\* C9: on a request that arrives with a non-empty secret cookie the plugin
\* never writes the cookie, and every token csrfToken() returns is
\* tokenize(presented secret, salt) for a salt of the configured length.
C9_PresentedSecretKept ==
  Truthy(rq.presented)
  => /\ rq.writes = 0
     /\ rq.cookie = [NoCookies EXCEPT ![cookieKey] = rq.presented]
     /\ Truthy(rq.last)
          => \E salt \in randomString(saltLength) :
               rq.last = Str(tokenize(rq.presented.v, salt))

\* a request that came with a secret called csrfToken() twice and was served
C9_Witness ==
  /\ Truthy(rq.presented)
  /\ rq.calls = 2 /\ Truthy(rq.last)
  /\ rq.pc = "done" /\ rq.status = 200

\* C10: when a request arrives with the secret cookie absent or empty and its
\* handler calls csrfToken() with cookie storage on, a non-empty secret has
\* been written under the configured key, the returned token is non-empty,
\* and the token verifies against the written secret.
C10_CreatedSecretVerifies ==
  (~Truthy(rq.presented) /\ rq.calls >= 1)
  => /\ rq.writes >= 1
     /\ Truthy(rq.cookie[cookieKey])
     /\ \A k \in CookieKeys \ {cookieKey} : rq.cookie[k] = Undef
     /\ Truthy(rq.last)
     /\ verifyToken(variant, rq.cookie[cookieKey], rq.last, saltLength) = "true"
\* the token is valid for the secret cookie the request arrived with
ValidFor(req, token) ==
  verifyToken(variant, req.presented, token, saltLength) = "true"

\* the request carries no token header at all
NoTokenHeader(req) == \A h \in HeaderNames : req.headers[h] = Undef

\* C11: with a custom extractor that reads only headers, the candidate is
\* exactly what that function returns: a checked request passes iff the value
\* it returns is valid, a valid token only in body field _csrf is rejected
\* with 403, and a valid token in the header is accepted.
C11_CustomExtractorExclusive ==
  (/\ options.value = "custom"
   /\ Validated /\ Checked
   /\ Truthy(rq.presented))
  => /\ Passed <=> ValidFor(rq, customValue(Context(rq)))
     /\ (ValidFor(rq, rq.body) /\ NoTokenHeader(rq)) => Rejected
     /\ ValidFor(rq, rq.headers["x-csrf-token"]) => Passed

\* custom extractor, a valid token only in the body: refused
C11_Witness ==
  /\ options.value = "custom"
  /\ Checked /\ Rejected
  /\ Truthy(rq.presented)
  /\ ValidFor(rq, rq.body) /\ NoTokenHeader(rq)

\* the first non-empty value in the documented order, undefined if none
FirstNonEmpty(req) ==
  LET val(i) == IF i = 1 THEN req.body
                ELSE IF i = 2 THEN req.query
                ELSE req.headers[Order[i]]
      found == {i \in 1..Len(Order) : Truthy(val(i))}
  IN IF found = {} THEN Undef
     ELSE val(CHOOSE i \in found : \A j \in found : i <= j)

\* C12: the default extractor returns the first non-empty value in the order
\* body._csrf, query._csrf, csrf-token, xsrf-token, x-csrf-token,
\* x-xsrf-token, and a checked request passes iff that one value is valid.
C12_FirstNonEmptyWins ==
  (/\ options.value = "default"
   /\ Validated /\ Checked
   /\ cookieConfig.enabled /\ Truthy(rq.presented))
  => /\ Truthy(FirstNonEmpty(rq)) => defaultValue(Context(rq)) = FirstNonEmpty(rq)
     /\ Passed <=> ValidFor(rq, FirstNonEmpty(rq))

\* C13: with the default extractor, a checked request with a secret cookie
\* and a token valid for it in one of the four token headers only passes
\* validation.
C13_HeaderTokenAccepted ==
  (/\ options.value = "default"
   /\ Validated /\ Checked
   /\ cookieConfig.enabled /\ Truthy(rq.presented)
   /\ rq.body = Undef /\ rq.query = Undef
   /\ \E h \in HeaderNames : ValidFor(rq, rq.headers[h]))
  => Passed
\* C14: every rejection by the validation step has status 403 and the body
\* "Invalid CSRF token", whatever branch rejected the request.
C14_UniformRejection ==
  rq.status = 403 => rq.text = "Invalid CSRF token"

\* cookie storage is not enabled: options.cookie is omitted or false
StorageOff == options.cookie \in {CookieOmitted, CookieFalse}

\* C15: with cookie storage not enabled, every invocation of csrfToken()
\* raises "CSRF: Cookie storage must be enabled" (a thrown error, not a 403);
\* no token is ever returned and no cookie is ever written.
C15_StorageOffThrows ==
  StorageOff
  => /\ rq.calls = 0 /\ rq.last = Undef
     /\ rq.writes = 0 /\ rq.cookie[cookieKey] = rq.presented
     /\ rq.invoked >= 1
          => /\ rq.pc = "done" /\ rq.status = 500
             /\ rq.text = "CSRF: Cookie storage must be enabled"

\* cookie: false, the handler of a request called csrfToken() and it threw
C15_Witness ==
  /\ options.cookie = CookieFalse
  /\ rq.invoked = 1
  /\ rq.status = 500 /\ rq.text = "CSRF: Cookie storage must be enabled"

\* C16: csrfToken() is available to the handler of a checked request too, and
\* the token it returns there verifies against the secret cookie value the
\* request was validated with.
C16_TokenOnCheckedRequest ==
  (Validated /\ Checked /\ rq.calls >= 1)
  => /\ rq.cookie[cookieKey] = rq.presented
     /\ ValidFor(rq, rq.last)

\* C17: every invocation of csrfToken() draws a salt of saltLength characters
\* and returns tokenize(secret, salt) for the salt of that invocation (no
\* token of an earlier invocation is handed back), and the token verifies
\* against the secret of the request.
C17_FreshSaltEachCall ==
  rq.calls >= 1
  => /\ Len(rq.drawn) = saltLength
     /\ rq.last = Str(tokenize(rq.cookie[cookieKey].v, rq.drawn))
     /\ verifyToken(variant, rq.cookie[cookieKey], rq.last, saltLength) = "true"
\* C18: for every secret s and salts salt1 # salt2, tokenize(s, salt1) and
\* tokenize(s, salt2) differ, and both verify against s.  (Variant 1 is
\* called with the length of the salts.)
C18_SaltedTokensDifferAndVerify ==
  (/\ pure.pc = "verified" /\ pure.mode = "same"
   /\ Truthy(pure.secret))
  => \A salt2 \in PureSalts \ {pure.salt} :
       /\ tokenize(pure.secret.v, salt2) # pure.token.v
       /\ (Len(pure.salt) = saltLength /\ Len(salt2) = saltLength)
            => /\ pure.result = "true"
               /\ verifyToken(variant, pure.secret,
                              Str(tokenize(pure.secret.v, salt2)), saltLength) = "true"

\* C19: whenever the plugin has written a new secret to the cookie, every
\* attribute the configuration gives (path, httpOnly, sameSite, secure,
\* maxAge, domain) is on the cookie with its configured value.
C19_AttributesApplied ==
  rq.writes >= 1
  => \A a \in AttrNames :
       options.cookie.attrs[a] # "absent" => rq.attrs[a] = options.cookie.attrs[a]

\* the configured list, or GET, HEAD, OPTIONS when none is configured
ConfiguredIgnoreList ==
  IF options.ignoreMethods.given THEN options.ignoreMethods.list
  ELSE {"GET", "HEAD", "OPTIONS"}

\* the method of the request, uppercased, is the uppercase of a list entry
InIgnoreList ==
  \E entry \in ConfiguredIgnoreList : toUpperCase(entry) = toUpperCase(rq.method)

\* C20: a request is exempt from validation iff its method, uppercased,
\* equals the uppercase of an entry of the configured ignoreMethods list (the
\* default list only when none is configured): a request in the list is
\* never answered 403 whatever it carries, and one outside it is validated,
\* so it is rejected unless its token verifies against its secret cookie.
C20_ExemptIffListed ==
  Validated
  => /\ InIgnoreList => rq.status # 403
     /\ (~InIgnoreList /\ ~ValidFor(rq, getValue(Context(rq)))) => Rejected

\* the list is ["post", "PATCH"]: a POST without cookie and token is in its
\* handler
C20_Witness ==
  /\ options.ignoreMethods = IgnoreList({"post", "PATCH"})
  /\ rq.method = "POST" /\ rq.pc = "handler"
  /\ rq.presented = Undef /\ getValue(Context(rq)) = Undef
\* C21: the comparison of verifyToken is constant-time: once the token and
\* the expected token have the same length the loop visits every position,
\* so a call that reaches the loop takes exactly token.length steps wherever
\* the first difference lies, and a call that returns earlier takes none.
C21_ConstantTimeCompare ==
  pure.pc = "verified" =>
    /\ pure.steps \in {0, IF pure.token.t = "string" THEN Len(pure.token.v) ELSE 0}
    /\ pure.result = "true" => pure.steps = Len(pure.token.v)
    /\ ( /\ Truthy(pure.against) /\ Truthy(pure.token)
         /\ Len(pure.token.v) = Len(pure.salt) + 1 + HashLen
         /\ pure.mode \in {"same", "other"}
         /\ variant = 2 => IndexOf(pure.salt, Dash) = -1
         /\ variant = 1 => Len(pure.salt) = saltLength )
       => pure.steps = Len(pure.token.v)

\* a token whose only wrong character is its last one went through the loop
\* and was refused
C21_Witness ==
  /\ pure.pc = "verified" /\ pure.mode = "raw" /\ pure.result = "false"
  /\ pure.steps = Len(pure.token.v) /\ pure.steps > 0
  /\ LET expected == tokenize(pure.against.v, SaltOf(variant, pure.token, saltLength))
     IN /\ pure.token.v[pure.steps] # expected[pure.steps]
        /\ \A i \in 1..(pure.steps - 1) : pure.token.v[i] = expected[i]

\* the handler of the request was entered
HandlerRan == rq.pc = "handler" \/ rq.invoked > 0 \/ rq.status = 200

WrittenAtMostOnce(r) ==
  /\ r.writes <= 1
  /\ r.writes = 1 => ~Truthy(r.presented)
  /\ Truthy(r.presented) => r.cookie[cookieKey] = r.presented
  /\ Truthy(r.cached) => r.cached = r.cookie[cookieKey]

\* C23: within one request the secret cookie is written at most once and
\* only to create an absent secret; the second and every later csrfToken()
\* call gets the identical secret, and its token is minted under it, without
\* another write.
C23_SecretWrittenAtMostOnce ==
  [][ /\ WrittenAtMostOnce(rq')
      /\ (rq.calls >= 1 /\ rq'.calls = rq.calls + 1) =>
            /\ rq'.cached = rq.cached /\ rq'.cookie = rq.cookie
            /\ rq'.writes = rq.writes /\ rq'.attrs = rq.attrs
            /\ \E salt \in randomString(saltLength) :
                 rq'.last = Str(tokenize(rq.cached.v, salt)) ]_vars

\* a request that arrived without a secret has had two tokens returned
C23_Witness ==
  rq.calls >= 2 /\ rq.writes = 1 /\ ~Truthy(rq.presented) /\ Truthy(rq.cached)

\* request r has used one secret: the one validation read, the one cached,
\* the one behind the latest token and the one the cookie holds are equal,
\* and it is the presented one when a secret was presented
OneSecret(r) ==
  LET final == r.cookie[cookieKey]
  IN /\ Truthy(r.validatedWith) => r.validatedWith = final
     /\ Truthy(r.cached) => r.cached = final
     /\ Truthy(r.presented) => r.presented = final
     /\ r.calls >= 1 =>
          /\ Truthy(final)
          /\ \E salt \in randomString(saltLength) : r.last = Str(tokenize(final.v, salt))

\* C24: within one request a single secret value is used throughout: the
\* secret validated against, the secret behind every returned token and the
\* cookie value left at the end are equal, and a secret the cookie holds is
\* never replaced while the request is being processed.
C24_SingleSecretPerRequest ==
  [][ /\ OneSecret(rq')
      /\ (rq.pc # "idle" /\ rq'.pc # "idle" /\ Truthy(rq.cookie[cookieKey])) =>
            rq'.cookie[cookieKey] = rq.cookie[cookieKey] ]_vars

\* a checked request passed validation and then had a token returned
C24_Witness ==
  /\ rq.pc = "done" /\ rq.status = 200 /\ rq.calls >= 1
  /\ Truthy(rq.validatedWith) /\ rq.validatedWith = rq.cookie[cookieKey]

\* C26: validation is read-only with respect to the cookie: a request that
\* arrives without a secret cookie and never invokes csrfToken() ends with
\* no cookie written.
C26_NoWriteWithoutCsrfToken ==
  (rq.pc # "idle" /\ ~Truthy(rq.presented) /\ rq.invoked = 0) =>
    rq.writes = 0 /\ rq.cookie[cookieKey] = rq.presented

\* C27: the salt of every token csrfToken() returns contains no '-': the
\* first '-' of the token is the separator, at index saltLength.
C27_SaltHasNoDash ==
  rq.calls >= 1 => IndexOf(rq.last.v, Dash) = saltLength

\* the outcome of validation for request r: rejected with 403 before the
\* handler, or allowed through to the handler; never both, never neither
OneOutcome(r) ==
  r.pc \in {"handler", "done"} =>
    /\ r.status \in {0, 200, 403, 500}
    /\ r.status = 403 => r.pc = "done" /\ r.invoked = 0 /\ r.calls = 0
    /\ r.status = 0 <=> r.pc = "handler"
    /\ r.status = 500 => r.invoked > 0

\* the condition under which a checked request is allowed: the secret the
\* plugin read from its cookie storage and the extracted token are non-empty
\* and verifyToken(secret, token) is true
AllowCondition(r) ==
  /\ Truthy(r.validatedWith) /\ Truthy(getValue(Context(r)))
  /\ verifyToken(variant, r.validatedWith, getValue(Context(r)), saltLength) = "true"

C30_RandomStringLength ==
  /\ \A n \in 0..(MaxSaltLen * MaxSaltLen * MaxSaltLen) :
       Base64Len(RandomByteCount(n)) >= n
  /\ pure.pc = "drawn" =>
        /\ Len(pure.salt) = saltLength
        /\ \A n \in 0..MaxSaltLen : \A str \in randomString(n) : Len(str) = n
  /\ (pure.pc = "minted" /\ pure.mode = "draw") =>
        /\ Len(pure.token.v) = saltLength + 1 + HashLen
        /\ pure.token.v[saltLength + 1] = Dash
        /\ SubSeq(pure.token.v, 1, saltLength) = pure.salt
        /\ SubSeq(pure.token.v, saltLength + 2, Len(pure.token.v))
             = hash(pure.salt \o <<Dash>> \o pure.secret.v)

\* a token was minted with a drawn salt of the largest configured length
C30_Witness ==
  /\ pure.pc = "minted" /\ pure.mode = "draw"
  /\ saltLength = MaxSaltLen /\ Len(pure.salt) = MaxSaltLen

\* C29: malformed client input never causes a fault: for every shape of
\* body and query (absent, null, a plain string, an object) and every token
\* value that is not a string (a number, an array, an object), default
\* extraction and verifyToken complete without raising, verifyToken returns
\* false, and the request is rejected with a normal 403.
C29_MalformedInputRejected ==
  /\ pure.pc = "verified" => pure.result # "TypeError"
  /\ (pure.pc = "verified" /\ pure.token.t # "string") => pure.result = "false"
  /\ (pure.pc = "verified" /\ pure.mode = "raw" /\ rq.pc \in {"handler", "done"}) =>
        /\ rq.status # 500 /\ rq.text # "TypeError"
        /\ getValue(Context(rq)) \in {pure.token, Undef}
        /\ rq.shapes \in ShapePairs \cup {<<"object", "absent">>}
        /\ ("object" \notin {rq.shapes[1], rq.shapes[2]} \/ pure.token.t # "string") =>
              /\ rq.pc = "done" /\ rq.status = 403 /\ rq.calls = 0
              /\ rq.text = "Invalid CSRF token"

\* an array that has '-' where the separator belongs and the length of a
\* token was sent as body field _csrf, next to a null query, and was rejected
C29_Witness ==
  /\ pure.pc = "verified" /\ pure.token.t = "array" /\ Truthy(rq.presented)
  /\ IndexOf(pure.token.v, Dash) = saltLength
  /\ rq.shapes = <<"object", "null">> /\ rq.body = pure.token
  /\ rq.pc = "done" /\ rq.status = 403

\* C25: the per-request secret cache is request-local under every
\* interleaving of concurrent requests of different clients: each request
\* uses the secret of its own cookie store (the one it presented, or the
\* one it created itself), and a step of one request, a cookie write
\* included, changes nothing of the other request.
C25_RequestLocalSecret ==
  [][ /\ OneSecret(rq') /\ OneSecret(peer')
      /\ WrittenAtMostOnce(rq') /\ WrittenAtMostOnce(peer')
      /\ peer' = peer \/ (peer' = rq /\ rq' = peer) ]_vars

\* both requests are in their handlers, each has had a token returned, one
\* under the secret it presented and one under a secret it created
C25_Witness ==
  /\ rq.pc = "handler" /\ peer.pc = "handler"
  /\ rq.calls >= 1 /\ peer.calls >= 1
  /\ rq.writes = 1 /\ Truthy(peer.presented)
  /\ rq.cookie[cookieKey] # peer.cookie[cookieKey]

====
